---- MODULE Spec2Model ----
(***************************************************************************)
(* A model of the cost manager's local data layer                          *)
(* (client-react/src/lib/idb.js): the process-wide IndexedDB handle, the   *)
(* "costs" and "settings" object stores, the promise-per-call operations   *)
(* addCost, setRatesUrl, getReport, getPieChartData and getBarChartData,   *)
(* and the rates provider they share.  Every IndexedDB request, every      *)
(* cursor step and every await is one action; the storage and the HTTP     *)
(* server are the environment and choose the outcome of each request.      *)
(***************************************************************************)
EXTENDS Integers, Sequences, FiniteSets, TLC

(***************************************************************************)
(* Bounds of the model.                                                    *)
(***************************************************************************)
\* API calls issued in one behaviour
MaxCalls == 2

\* bits of the significand of a binary floating-point number (JavaScript's
\* numbers have 53)
Precision == 8

(***************************************************************************)
(* JavaScript numbers.  A finite number is an exact fraction n/d in lowest *)
(* terms (d > 0); NaN and +Infinity are values of their own; "undef" is    *)
(* the value of a property that is missing from an object.                 *)
(***************************************************************************)
RECURSIVE Gcd(_, _)
Gcd(a, b) == IF b = 0 THEN a ELSE Gcd(b, a % b)

Abs(x) == IF x < 0 THEN -x ELSE x

Q(n, d) ==
    LET g == Gcd(Abs(n), d)
    IN  [k |-> "num", n |-> n \div g, d |-> d \div g]

NaN == [k |-> "nan", n |-> 0, d |-> 1]
Infinity == [k |-> "inf", n |-> 1, d |-> 1]
Undefined == [k |-> "undef", n |-> 0, d |-> 1]
Zero == Q(0, 1)

\* ToNumber: undefined becomes NaN, numbers stay what they are
ToNumber(v) == IF v.k = "undef" THEN NaN ELSE v

\* a / b for b a rate (a missing rate is undefined, hence NaN)
JsDiv(a0, b0) ==
    LET a == ToNumber(a0)
        b == ToNumber(b0)
    IN  IF a.k = "nan" \/ b.k = "nan" THEN NaN
        ELSE IF b.k = "inf" THEN (IF a.k = "inf" THEN NaN ELSE Zero)
        ELSE IF b.n = 0 THEN (IF a.k = "num" /\ a.n = 0 THEN NaN ELSE Infinity)
        ELSE IF a.k = "inf" THEN Infinity
        ELSE IF b.n > 0 THEN Q(a.n * b.d, a.d * b.n)
        ELSE Q(-(a.n * b.d), a.d * (-b.n))

\* a * b
JsMul(a0, b0) ==
    LET a == ToNumber(a0)
        b == ToNumber(b0)
    IN  IF a.k = "nan" \/ b.k = "nan" THEN NaN
        ELSE IF a.k = "inf" \/ b.k = "inf"
             THEN (IF (a.k = "num" /\ a.n = 0) \/ (b.k = "num" /\ b.n = 0)
                   THEN NaN ELSE Infinity)
        ELSE Q(a.n * b.n, a.d * b.d)

\* a + b
JsAdd(a0, b0) ==
    LET a == ToNumber(a0)
        b == ToNumber(b0)
    IN  IF a.k = "nan" \/ b.k = "nan" THEN NaN
        ELSE IF a.k = "inf" \/ b.k = "inf" THEN Infinity
        ELSE Q(a.n * b.d + b.n * a.d, a.d * b.d)

\* Number(x.toFixed(2)): the nearest multiple of 0.01, a tie going away from
\* zero; NaN and Infinity print as themselves and parse back
ToFixed2(x) ==
    IF x.k # "num" THEN ToNumber(x)
    ELSE LET m == (200 * Abs(x.n) + x.d) \div (2 * x.d)
         IN  Q(IF x.n < 0 THEN -m ELSE m, 100)

\* the value v || 0: 0 and NaN are falsy
OrZero(v) == IF v.k \in {"nan", "undef"} \/ (v.k = "num" /\ v.n = 0) THEN Zero ELSE v

\* Number.isFinite(x) && x > 0
IsFinitePositive(x) == x.k = "num" /\ x.n > 0

(***************************************************************************)
(* Currencies and rates tables.                                            *)
(***************************************************************************)
Currencies == {"USD", "GBP", "EURO", "ILS"}

defaultRates ==
    [USD |-> Q(1, 1), GBP |-> Q(6, 10), EURO |-> Q(7, 10), ILS |-> Q(34, 10)]

\* rates[cur]: undefined when the table has no such key
RateOf(rates, cur) == IF cur \in DOMAIN rates THEN rates[cur] ELSE Undefined

convert(sum, fromCur, toCur, rates) ==
    LET usd == JsDiv(sum, RateOf(rates, fromCur))
    IN  JsMul(usd, RateOf(rates, toCur))

(***************************************************************************)
(* Binary floating point.  The reports above are computed on exact         *)
(* fractions; here the arithmetic of convert is computed as JavaScript     *)
(* computes it, each operation rounded to the nearest number that has      *)
(* Precision significant bits, a tie going to the even significand.  A     *)
(* finite number is s * m * 2^e with s the sign and m = 0 or               *)
(* 2^(Precision-1) <= m < 2^Precision; the exponent is not bounded.        *)
(***************************************************************************)
RECURSIVE Pow2(_)
Pow2(n) == IF n <= 0 THEN 1 ELSE 2 * Pow2(n - 1)

FNum(s, m, e) == [k |-> "num", s |-> s, m |-> m, e |-> e]
FZero == FNum(1, 0, 0)
FNaN == [k |-> "nan", s |-> 1, m |-> 0, e |-> 0]
FInf(s) == [k |-> "inf", s |-> s, m |-> 0, e |-> 0]

\* the number nearest to s * (n / d) * 2^e, for n >= 0 and d > 0
RECURSIVE Nearest(_, _, _, _)
Nearest(s, n, d, e) ==
    IF n = 0 THEN FZero
    ELSE IF n >= d * Pow2(Precision) THEN Nearest(s, n, 2 * d, e + 1)
    ELSE IF n < d * Pow2(Precision - 1) THEN Nearest(s, 2 * n, d, e - 1)
    ELSE LET q == n \div d
             r == n % d
             m == IF 2 * r > d \/ (2 * r = d /\ q % 2 = 1) THEN q + 1 ELSE q
         IN  IF m = Pow2(Precision) THEN FNum(s, Pow2(Precision - 1), e + 1)
             ELSE FNum(s, m, e)

\* the number a decimal literal n/d denotes
Literal(n, d) == Nearest(IF n < 0 THEN -1 ELSE 1, Abs(n), d, 0)

\* a / b
FDiv(a, b) ==
    IF a.k = "nan" \/ b.k = "nan" THEN FNaN
    ELSE IF a.k = "inf" THEN (IF b.k = "inf" THEN FNaN ELSE FInf(a.s * b.s))
    ELSE IF b.k = "inf" THEN FZero
    ELSE IF b.m = 0 THEN (IF a.m = 0 THEN FNaN ELSE FInf(a.s * b.s))
    ELSE Nearest(a.s * b.s, a.m, b.m, a.e - b.e)

\* a * b
FMul(a, b) ==
    IF a.k = "nan" \/ b.k = "nan" THEN FNaN
    ELSE IF a.k = "inf" \/ b.k = "inf"
         THEN (IF (a.k = "num" /\ a.m = 0) \/ (b.k = "num" /\ b.m = 0)
               THEN FNaN ELSE FInf(a.s * b.s))
    ELSE Nearest(a.s * b.s, a.m * b.m, 1, a.e + b.e)

\* rates[cur] as a number: NaN in arithmetic when the table has no such key
FRateOf(rates, cur) == IF cur \in DOMAIN rates THEN rates[cur] ELSE FNaN

\* a convert that multiplies by both rates
convertFloatMultiplying(sum, fromCur, toCur, rates) ==
    FMul(FMul(sum, FRateOf(rates, fromCur)), FRateOf(rates, toCur))

\* convert, on floating-point numbers
convertFloat(sum, fromCur, toCur, rates) ==
    LET usd == FDiv(sum, FRateOf(rates, fromCur))
    IN  FMul(usd, FRateOf(rates, toCur))

\* the amounts handed to convert: zero, and the numbers of two binades, of
\* either sign
Amounts ==
    {FZero} \cup
    {FNum(s, m, e) : s \in {1, -1}, m \in Pow2(Precision - 1)..(Pow2(Precision) - 1),
                     e \in {-(Precision - 1), 2 - Precision}}

\* the rates tables handed to convert: the default one, and one with a rate
\* of 0
FloatTables ==
    { [USD |-> Literal(1, 1), GBP |-> Literal(6, 10),
       EURO |-> Literal(7, 10), ILS |-> Literal(34, 10)],
      [USD |-> Literal(1, 1), GBP |-> FZero] }

(***************************************************************************)
(* The inputs the model draws from.                                        *)
(***************************************************************************)
\* new Date() at the moments the model looks at the clock
Dates ==
    << [year |-> 2025, month |-> 12, day |-> 31],
       [year |-> 2026, month |-> 1, day |-> 1] >>

\* the cost objects handed to addCost: two valid ones, and sums that are
\* zero, negative, NaN and infinite
CostInputs ==
    { [sum |-> Q(20, 1), currency |-> "ILS", category |-> "CAR", description |-> "taxi"],
      [sum |-> Q(50, 1), currency |-> "GBP", category |-> "FOOD", description |-> "dinner"],
      [sum |-> Zero, currency |-> "EURO", category |-> "CAR", description |-> "free"],
      [sum |-> Q(-5, 1), currency |-> "USD", category |-> "CAR", description |-> "refund"],
      [sum |-> NaN, currency |-> "USD", category |-> "FOOD", description |-> "nan"],
      [sum |-> Infinity, currency |-> "ILS", category |-> "CAR", description |-> "inf"] }

NoCost == [sum |-> Zero, currency |-> "", category |-> "", description |-> ""]

\* the (year, month, currency) of a report or chart request
Queries ==
    { [year |-> 2025, month |-> 12, currency |-> "USD"],
      [year |-> 2025, month |-> 12, currency |-> "ILS"] }

\* the urls handed to setRatesUrl
Urls == {"", "http://localhost:3000/rates.json"}

\* the documents a rates server may answer with: the companion server's table,
\* another complete table, and one that lacks USD and EURO
ServedRates ==
    { defaultRates,
      [USD |-> Q(1, 1), GBP |-> Q(8, 10), EURO |-> Q(9, 10), ILS |-> Q(36, 10)],
      [GBP |-> Q(6, 10), ILS |-> Q(34, 10)] }

\* the databases of the origin; the pages open "costsdb"
AllDbs == {"costsdb", "testdb"}
PageDbs == {"costsdb"}

\* the versions handed to openCostsDB: the pages' 1, and a raised one
Versions == {1, 2}

\* a stored cost record
Record(id, cost, date) ==
    [id |-> id, sum |-> cost.sum, currency |-> cost.currency,
     category |-> cost.category, description |-> cost.description,
     year |-> date.year, month |-> date.month, day |-> date.day]

\* what "costsdb" may hold from earlier sessions when the page loads: nothing
\* (the database does not exist yet), or a taxi of November and a lunch and a
\* dinner of December
SeedCosts ==
    { << >>,
      << Record(1, [sum |-> Q(10, 1), currency |-> "ILS", category |-> "CAR",
                    description |-> "taxi"],
                [year |-> 2025, month |-> 11, day |-> 30]),
         Record(2, [sum |-> Q(100, 1), currency |-> "USD", category |-> "FOOD",
                    description |-> "lunch"], Dates[1]),
         Record(3, [sum |-> Q(50, 1), currency |-> "GBP", category |-> "FOOD",
                    description |-> "dinner"], Dates[1]) >> }

(***************************************************************************)
(* State.                                                                  *)
(***************************************************************************)
VARIABLES
    _db,        \* the module's handle: NULL or the database it is connected to
    version,    \* per database: its version, 0 while it does not exist
    stores,     \* per database: the names of its object stores
    costs,      \* per database: the committed records of "costs", in key order
    keygen,     \* per database: the key generator of "costs" (last key given)
    settings,   \* per database: the "ratesUrl" entry of "settings"
    clock,      \* index into Dates of the current date
    opens,      \* per database: its latest openCostsDB request
    calls,      \* the API calls, in the order they were made
    page        \* the page component that is mounted, if any

vars == << _db, version, stores, costs, keygen, settings, clock, opens, calls, page >>

NULL == "null"
Absent == [present |-> FALSE, value |-> ""]
Entry(url) == [present |-> TRUE, value |-> url]

NoOpen == [state |-> "idle", version |-> 0, connected |-> FALSE]
NoPage == [kind |-> "none"]
NoRates == [none |-> Zero]
NoResult == << >>
EmptyBuckets == [m \in 1..12 |-> << >>]

ReadOps == {"getReport", "getPieChartData", "getBarChartData"}
WriteOps == {"addCost", "setRatesUrl"}

(***************************************************************************)
(* The computations of build(), on the items a scan collected.             *)
(***************************************************************************)
\* getReport's cursor callback: the item pushed for a record
RawItem(r) ==
    [sum |-> r.sum, currency |-> r.currency, category |-> r.category,
     description |-> r.description, Date |-> [day |-> r.day]]

\* getBarChartData's cursor callback: the item pushed for a record
BarItem(r) == [sum |-> r.sum, currency |-> r.currency]

\* a filter that forgets the month
MatchesMonthYearOnly(r, year, month) == r.year = year

\* getReport's filter
MatchesMonth(r, year, month) == r.year = year /\ r.month = month

\* a filter that takes the records of every year
MatchesAnyYear(r, year) == r.month >= 1 /\ r.month <= 12

\* getBarChartData's filter
MatchesYear(r, year) == r.year = year /\ r.month >= 1 /\ r.month <= 12

\* rawCosts.map(c => ({...c, sum: Number(convert(...).toFixed(2)), currency}))
ConvertedCosts(rawCosts, currency, rates) ==
    [i \in DOMAIN rawCosts |->
        [rawCosts[i] EXCEPT
            !.sum = ToFixed2(convert(rawCosts[i].sum, rawCosts[i].currency, currency, rates)),
            !.currency = currency]]

\* let total = 0; for (const c of convertedCosts) total += c.sum
RECURSIVE TotalOf(_, _, _)
TotalOf(items, i, total) ==
    IF i > Len(items) THEN total
    ELSE TotalOf(items, i + 1, JsAdd(total, items[i].sum))

\* the object getReport resolves with
BuildReport(rawCosts, year, month, currency, rates) ==
    LET convertedCosts == ConvertedCosts(rawCosts, currency, rates)
    IN  [year |-> year, month |-> month, costs |-> convertedCosts,
         total |-> [currency |-> currency,
                    total |-> ToFixed2(TotalOf(convertedCosts, 1, Zero))]]

\* map.set(c.category, (map.get(c.category) || 0) + c.sum) on a Map kept as the
\* sequence of its entries in insertion order
MapSet(map, name, sum) ==
    IF \E j \in DOMAIN map : map[j].name = name
    THEN [j \in DOMAIN map |->
            IF map[j].name = name
            THEN [name |-> name, value |-> JsAdd(OrZero(map[j].value), sum)]
            ELSE map[j]]
    ELSE Append(map, [name |-> name, value |-> JsAdd(Zero, sum)])

RECURSIVE GroupByCategory(_, _, _)
GroupByCategory(reportCosts, i, map) ==
    IF i > Len(reportCosts) THEN map
    ELSE GroupByCategory(reportCosts, i + 1,
                         MapSet(map, reportCosts[i].category, reportCosts[i].sum))

\* the array getPieChartData resolves with, from the report it awaited
BuildPie(report) ==
    LET map == GroupByCategory(report.costs, 1, << >>)
    IN  [j \in DOMAIN map |-> [name |-> map[j].name, value |-> ToFixed2(map[j].value)]]

\* total += convert(item.sum, item.currency, currency, rates) over one bucket
RECURSIVE BucketTotal(_, _, _, _, _)
BucketTotal(items, i, total, currency, rates) ==
    IF i > Len(items) THEN total
    ELSE BucketTotal(items, i + 1,
                     JsAdd(total, convert(items[i].sum, items[i].currency, currency, rates)),
                     currency, rates)

\* a bar chart that leaves out the months without items
BuildBarNonEmpty(perMonth, currency, rates) ==
    LET months == SelectSeq([m \in 1..12 |-> m], LAMBDA m : perMonth[m] # << >>)
    IN  [j \in 1..Len(months) |->
            [month |-> months[j],
             total |-> ToFixed2(BucketTotal(perMonth[months[j]], 1, Zero, currency, rates))]]

\* the array getBarChartData resolves with
BuildBar(perMonth, currency, rates) ==
    [m \in 1..12 |->
        [month |-> m,
         total |-> ToFixed2(BucketTotal(perMonth[m], 1, Zero, currency, rates))]]

(***************************************************************************)
(* Calls and their transactions.  A call is created by the API function    *)
(* and lives on as the state of its promise.  Its fields are the locals of *)
(* the function's closure; seen, cfg and after are history fields that no  *)
(* action reads.                                                           *)
(***************************************************************************)
BlankCall(op) ==
    [op |-> op,
     db |-> _db,                \* the connection the call took from _db
     cost |-> NoCost,           \* addCost's argument
     newUrl |-> "",             \* setRatesUrl's argument
     year |-> 0, month |-> 0, day |-> 0, currency |-> "",
     pc |-> "new",
     tx |-> "none",             \* none, live, committed, aborted
     err |-> "",
     key |-> 0,                 \* the key the add request was given
     pos |-> 0,                 \* records the cursor has gone past
     rawCosts |-> << >>,
     perMonth |-> EmptyBuckets,
     ratesUrl |-> "unread",
     nfetch |-> 0,              \* HTTP requests the call has issued
     http |-> "",               \* the answer to its HTTP request
     rates |-> NoRates,
     result |-> NoResult,
     seen |-> << >>,            \* history: "costs" when the cursor was opened
     cfg |-> Absent,            \* history: the settings entry when it was read
     after |-> {}]              \* history: the addCost calls resolved before this one

\* reject(e): the promise is rejected with an error of the given kind
Reject(c, kind) == [c EXCEPT !.pc = "rejected", !.err = kind]

\* a requireOpenDb that never throws
requireOpenDbNeverThrows == FALSE

\* requireOpenDb() throws
requireOpenDbThrows == _db = NULL

\* The head of every API function: the promise executor runs requireOpenDb and
\* rejects with what it throws; otherwise it creates the transaction and places
\* the first request.  (_db.transaction on a null handle would throw a TypeError
\* inside the executor, which rejects the promise.)
Begin(c, pc) ==
    IF requireOpenDbThrows THEN Reject(c, "NotOpen")
    ELSE IF _db = NULL THEN Reject(c, "TypeError")
    ELSE [c EXCEPT !.pc = pc, !.tx = "live"]

Scope(op) ==
    IF op = "addCost" THEN {"costs"}
    ELSE IF op = "setRatesUrl" THEN {"settings"}
    ELSE {"costs", "settings"}

\* two transactions that may not run at the same time: same database,
\* overlapping scope, one of them readwrite
Conflict(a, b) ==
    /\ a.db = b.db
    /\ Scope(a.op) \cap Scope(b.op) # {}
    /\ (a.op \in WriteOps \/ b.op \in WriteOps)

\* a storage that runs the requests of every live transaction at once
CanRunAtOnce(i) == calls[i].tx = "live"

\* IndexedDB runs the requests of a transaction once every conflicting
\* transaction created before it has finished
CanRun(i) ==
    /\ calls[i].tx = "live"
    /\ \A j \in 1..(i - 1) : ~(calls[j].tx = "live" /\ Conflict(calls[j], calls[i]))

ResolvedAdds == {j \in DOMAIN calls : calls[j].op = "addCost" /\ calls[j].pc = "resolved"}

dbVars == << version, stores, costs, keygen, settings >>

(***************************************************************************)
(* Initial state: the module has just been loaded.  "costsdb" either does  *)
(* not exist yet or holds what an earlier session stored.                  *)
(***************************************************************************)
Init ==
    /\ _db = NULL
    /\ page = NoPage
    /\ clock = 1
    /\ opens = [n \in AllDbs |-> NoOpen]
    /\ calls = << >>
    /\ settings = [n \in AllDbs |-> Absent]
    /\ \E seed \in SeedCosts :
          /\ costs = [n \in AllDbs |-> IF n = "costsdb" THEN seed ELSE << >>]
          /\ keygen = [n \in AllDbs |-> IF n = "costsdb" THEN Len(seed) ELSE 0]
          /\ version = [n \in AllDbs |-> IF n = "costsdb" /\ seed # << >> THEN 1 ELSE 0]
          /\ stores = [n \in AllDbs |->
                          IF n = "costsdb" /\ seed # << >>
                          THEN {"costs", "settings"} ELSE {}]

\* time passes
Tick ==
    /\ clock < Len(Dates)
    /\ clock' = clock + 1
    /\ UNCHANGED << _db, dbVars, opens, calls >>

(***************************************************************************)
(* openCostsDB                                                             *)
(***************************************************************************)
\* indexedDB.open; the model follows one request per database at a time
openCostsDB(databaseName, databaseVersion) ==
    /\ opens[databaseName].state # "pending"
    /\ opens' = [opens EXCEPT ![databaseName].state = "pending",
                              ![databaseName].version = databaseVersion]
    /\ UNCHANGED << _db, dbVars, clock, calls >>

\* an upgrade that creates both stores anew, dropping what they held
OpenOnSuccessRecreating(name) ==
    LET upgrade == version[name] < opens[name].version
    IN  /\ opens[name].state = "pending"
        /\ version[name] <= opens[name].version
        /\ upgrade => ~opens[name].connected
        /\ version' = [version EXCEPT ![name] = opens[name].version]
        /\ stores' = [stores EXCEPT ![name] =
                         IF upgrade THEN {"costs", "settings"} ELSE @]
        /\ costs' = [costs EXCEPT ![name] = IF upgrade THEN << >> ELSE @]
        /\ keygen' = [keygen EXCEPT ![name] = IF upgrade THEN 0 ELSE @]
        /\ settings' = [settings EXCEPT ![name] = IF upgrade THEN Absent ELSE @]
        /\ _db' = name
        /\ opens' = [opens EXCEPT ![name].state = "success", ![name].connected = TRUE]
        /\ UNCHANGED << clock, calls >>

\* request.onupgradeneeded, when the version is raised, then request.onsuccess.
\* The version is raised only once no connection to the database is open: the
\* module never closes one, so a request that raises it after an earlier open
\* of the session stays blocked.  The upgrade creates the stores that are
\* missing.
OpenOnSuccess(name) ==
    LET upgrade == version[name] < opens[name].version
    IN  /\ opens[name].state = "pending"
        /\ version[name] <= opens[name].version
        /\ upgrade => ~opens[name].connected
        /\ version' = [version EXCEPT ![name] = opens[name].version]
        /\ stores' = [stores EXCEPT ![name] =
                         IF upgrade THEN @ \cup {"costs", "settings"} ELSE @]
        /\ _db' = name
        /\ opens' = [opens EXCEPT ![name].state = "success", ![name].connected = TRUE]
        /\ UNCHANGED << costs, keygen, settings, clock, calls >>

\* request.onerror: the storage could not be opened
\* a failed open that drops the handle
OpenOnErrorClearing(name) ==
    /\ opens[name].state = "pending"
    /\ opens' = [opens EXCEPT ![name].state = "error"]
    /\ _db' = NULL
    /\ UNCHANGED << dbVars, clock, calls >>

OpenOnError(name) ==
    /\ opens[name].state = "pending"
    /\ opens' = [opens EXCEPT ![name].state = "error"]
    /\ UNCHANGED << _db, dbVars, clock, calls >>

(***************************************************************************)
(* addCost and setRatesUrl                                                 *)
(***************************************************************************)
addCost(cost) ==
    LET now == Dates[clock]
        c == [BlankCall("addCost") EXCEPT
                !.cost = cost, !.year = now.year, !.month = now.month, !.day = now.day]
    IN  /\ Len(calls) < MaxCalls
        /\ calls' = Append(calls, Begin(c, "request"))
        /\ UNCHANGED << _db, dbVars, clock, opens >>

\* request.onsuccess of store.add: the record is in the store inside the
\* transaction, under the next key, and the promise resolves
AddCostOnSuccess(i) ==
    /\ calls[i].op = "addCost"
    /\ calls[i].pc = "request"
    /\ CanRun(i)
    /\ calls' = [calls EXCEPT ![i].pc = "resolved",
                              ![i].key = keygen[calls[i].db] + 1]
    /\ UNCHANGED << _db, dbVars, clock, opens >>

\* an addCost without request.onerror: the transaction aborts and the promise
\* is left pending
AddCostOnErrorUnhandled(i) ==
    /\ calls[i].op = "addCost"
    /\ calls[i].pc = "request"
    /\ CanRun(i)
    /\ calls' = [calls EXCEPT ![i].pc = "lost", ![i].tx = "aborted"]
    /\ UNCHANGED << _db, dbVars, clock, opens >>

\* request.onerror of store.add; the unhandled error aborts the transaction
AddCostOnError(i) ==
    /\ calls[i].op = "addCost"
    /\ calls[i].pc = "request"
    /\ CanRun(i)
    /\ calls' = [calls EXCEPT ![i] = [Reject(@, "Storage") EXCEPT !.tx = "aborted"]]
    /\ UNCHANGED << _db, dbVars, clock, opens >>

setRatesUrl(url) ==
    LET c == [BlankCall("setRatesUrl") EXCEPT !.newUrl = url]
    IN  /\ Len(calls) < MaxCalls
        /\ calls' = Append(calls, Begin(c, "request"))
        /\ UNCHANGED << _db, dbVars, clock, opens >>

\* request.onsuccess of store.put
SetRatesUrlOnSuccess(i) ==
    /\ calls[i].op = "setRatesUrl"
    /\ calls[i].pc = "request"
    /\ CanRun(i)
    /\ calls' = [calls EXCEPT ![i].pc = "resolved"]
    /\ UNCHANGED << _db, dbVars, clock, opens >>

\* request.onerror of store.put
SetRatesUrlOnError(i) ==
    /\ calls[i].op = "setRatesUrl"
    /\ calls[i].pc = "request"
    /\ CanRun(i)
    /\ calls' = [calls EXCEPT ![i] = [Reject(@, "Storage") EXCEPT !.tx = "aborted"]]
    /\ UNCHANGED << _db, dbVars, clock, opens >>

\* The readwrite transaction of a resolved call commits: what its request
\* wrote becomes the content of the store.
TxComplete(i) ==
    LET c == calls[i]
    IN  /\ c.op \in WriteOps
        /\ c.pc = "resolved"
        /\ c.tx = "live"
        /\ calls' = [calls EXCEPT ![i].tx = "committed"]
        /\ IF c.op = "addCost"
           THEN /\ costs' = [costs EXCEPT ![c.db] =
                                Append(@, Record(c.key, c.cost,
                                                 [year |-> c.year, month |-> c.month,
                                                  day |-> c.day]))]
                /\ keygen' = [keygen EXCEPT ![c.db] = c.key]
                /\ UNCHANGED settings
           ELSE /\ settings' = [settings EXCEPT ![c.db] = Entry(c.newUrl)]
                /\ UNCHANGED << costs, keygen >>
        /\ UNCHANGED << _db, version, stores, clock, opens >>

\* The commit fails (quota, disk): the transaction aborts and what its request
\* wrote is rolled back, the key generator included.
TxAbort(i) ==
    /\ calls[i].op \in WriteOps
    /\ calls[i].pc = "resolved"
    /\ calls[i].tx = "live"
    /\ calls' = [calls EXCEPT ![i].tx = "aborted"]
    /\ UNCHANGED << _db, dbVars, clock, opens >>

(***************************************************************************)
(* getReport, getPieChartData (which awaits getReport) and getBarChartData *)
(***************************************************************************)
getReport(year, month, currency) ==
    LET c == [BlankCall("getReport") EXCEPT
                !.year = year, !.month = month, !.currency = currency,
                !.after = ResolvedAdds]
    IN  /\ Len(calls) < MaxCalls
        /\ calls' = Append(calls, Begin(c, "scan"))
        /\ UNCHANGED << _db, dbVars, clock, opens >>

getPieChartData(year, month, currency) ==
    LET c == [BlankCall("getPieChartData") EXCEPT
                !.year = year, !.month = month, !.currency = currency,
                !.after = ResolvedAdds]
    IN  /\ Len(calls) < MaxCalls
        /\ calls' = Append(calls, Begin(c, "scan"))
        /\ UNCHANGED << _db, dbVars, clock, opens >>

getBarChartData(year, currency) ==
    LET c == [BlankCall("getBarChartData") EXCEPT
                !.year = year, !.currency = currency, !.after = ResolvedAdds]
    IN  /\ Len(calls) < MaxCalls
        /\ calls' = Append(calls, Begin(c, "scan"))
        /\ UNCHANGED << _db, dbVars, clock, opens >>

\* a cursor callback that takes the first record for the end of the store
AtEndAfterFirst(c) == c.pos >= 1 \/ c.pos >= Len(costs[c.db])

\* the record under the cursor after it has gone past pos records, if any
AtEnd(c) == c.pos >= Len(costs[c.db])
Current(c) == costs[c.db][c.pos + 1]
Opened(c) == IF c.pos = 0 THEN [c EXCEPT !.seen = costs[c.db]] ELSE c

\* getReport's cursorReq.onsuccess: at the end build() starts and places the
\* settings request; otherwise the record is kept if it matches, and the
\* cursor continues
ReportCursorOnSuccess(i) ==
    LET c == Opened(calls[i])
    IN  /\ calls[i].op \in {"getReport", "getPieChartData"}
        /\ calls[i].pc = "scan"
        /\ CanRun(i)
        /\ calls' = [calls EXCEPT ![i] =
              IF AtEnd(c) THEN [c EXCEPT !.pc = "readUrl"]
              ELSE [c EXCEPT
                      !.rawCosts = IF MatchesMonth(Current(c), c.year, c.month)
                                   THEN Append(@, RawItem(Current(c))) ELSE @,
                      !.pos = @ + 1]]
        /\ UNCHANGED << _db, dbVars, clock, opens >>

\* getBarChartData's cursorReq.onsuccess
BarCursorOnSuccess(i) ==
    LET c == Opened(calls[i])
    IN  /\ calls[i].op = "getBarChartData"
        /\ calls[i].pc = "scan"
        /\ CanRun(i)
        /\ calls' = [calls EXCEPT ![i] =
              IF AtEnd(c) THEN [c EXCEPT !.pc = "readUrl"]
              ELSE [c EXCEPT
                      !.perMonth = IF MatchesYear(Current(c), c.year)
                                   THEN [@ EXCEPT ![Current(c).month] =
                                            Append(@, BarItem(Current(c)))]
                                   ELSE @,
                      !.pos = @ + 1]]
        /\ UNCHANGED << _db, dbVars, clock, opens >>

\* a cursorReq.onerror that rejects with the error of a handle that is not open
CursorOnErrorAsNotOpen(i) ==
    /\ calls[i].op \in ReadOps
    /\ calls[i].pc = "scan"
    /\ CanRun(i)
    /\ calls' = [calls EXCEPT ![i] = [Reject(@, "NotOpen") EXCEPT !.tx = "aborted"]]
    /\ UNCHANGED << _db, dbVars, clock, opens >>

\* cursorReq.onerror (getReport and getBarChartData alike)
CursorOnError(i) ==
    /\ calls[i].op \in ReadOps
    /\ calls[i].pc = "scan"
    /\ CanRun(i)
    /\ calls' = [calls EXCEPT ![i] = [Reject(@, "Storage") EXCEPT !.tx = "aborted"]]
    /\ UNCHANGED << _db, dbVars, clock, opens >>

\* a test that takes the empty string for a url
TruthyWhenPresent(url) == url # NULL

\* a url that JavaScript takes for true
Truthy(url) == url # NULL /\ url # ""

\* what build() resolves the promise with, once it has the rates
BuildResult(c, rates) ==
    IF c.op = "getReport"
    THEN BuildReport(c.rawCosts, c.year, c.month, c.currency, rates)
    ELSE IF c.op = "getPieChartData"
    THEN BuildPie(BuildReport(c.rawCosts, c.year, c.month, c.currency, rates))
    ELSE BuildBar(c.perMonth, c.currency, rates)

Resolve(c, rates) ==
    [c EXCEPT !.pc = "resolved", !.rates = rates, !.result = BuildResult(c, rates)]

\* a fetchRates that asks the companion server when no url is configured
fetchRatesAlways(c, ratesUrl) ==
    [c EXCEPT !.ratesUrl = ratesUrl, !.pc = "fetch", !.nfetch = @ + 1]

\* fetchRates up to its first await: with a url it issues the HTTP GET,
\* without one it returns the default table and build() runs to its end
fetchRates(c, ratesUrl) ==
    IF Truthy(ratesUrl)
    THEN [c EXCEPT !.ratesUrl = ratesUrl, !.pc = "fetch", !.nfetch = @ + 1]
    ELSE Resolve([c EXCEPT !.ratesUrl = ratesUrl], defaultRates)

\* readRatesUrl's req.onsuccess; no request is left, so the transaction ends
ReadRatesUrlOnSuccess(i) ==
    LET c == calls[i]
        entry == settings[c.db]
        ratesUrl == IF entry.present THEN entry.value ELSE NULL
    IN  /\ c.op \in ReadOps
        /\ c.pc = "readUrl"
        /\ CanRun(i)
        /\ calls' = [calls EXCEPT ![i] =
                        fetchRates([c EXCEPT !.tx = "committed", !.cfg = entry], ratesUrl)]
        /\ UNCHANGED << _db, dbVars, clock, opens >>

\* readRatesUrl's req.onerror
ReadRatesUrlOnError(i) ==
    /\ calls[i].op \in ReadOps
    /\ calls[i].pc = "readUrl"
    /\ CanRun(i)
    /\ calls' = [calls EXCEPT ![i] = [Reject(@, "Storage") EXCEPT !.tx = "aborted"]]
    /\ UNCHANGED << _db, dbVars, clock, opens >>

\* a fetchRates that falls back to the default table on a failure status
FetchOnResponseFallback(i, ok) ==
    /\ calls[i].pc = "fetch"
    /\ calls' = [calls EXCEPT ![i] =
                    IF ok THEN [@ EXCEPT !.pc = "json", !.http = "ok"]
                    ELSE Resolve([@ EXCEPT !.http = "notok"], defaultRates)]
    /\ UNCHANGED << _db, dbVars, clock, opens >>

\* fetch() settles with a response: a success status lets fetchRates go on to
\* response.json(), any other makes it throw
FetchOnResponse(i, ok) ==
    /\ calls[i].pc = "fetch"
    /\ calls' = [calls EXCEPT ![i] =
                    IF ok THEN [@ EXCEPT !.pc = "json", !.http = "ok"]
                    ELSE Reject([@ EXCEPT !.http = "notok"], "RatesFetch")]
    /\ UNCHANGED << _db, dbVars, clock, opens >>

\* a fetchRates that asks once more when the server cannot be reached
FetchOnFailureRetry(i) ==
    /\ calls[i].pc = "fetch"
    /\ calls' = [calls EXCEPT ![i] =
                    IF @.nfetch < 2 THEN [@ EXCEPT !.nfetch = @ + 1]
                    ELSE Reject([@ EXCEPT !.http = "failed"], "Network")]
    /\ UNCHANGED << _db, dbVars, clock, opens >>

\* fetch() rejects: the server cannot be reached
FetchOnFailure(i) ==
    /\ calls[i].pc = "fetch"
    /\ calls' = [calls EXCEPT ![i] = Reject([@ EXCEPT !.http = "failed"], "Network")]
    /\ UNCHANGED << _db, dbVars, clock, opens >>

\* response.json() resolves with the parsed table and build() runs to its end
JsonOnParsed(i, table) ==
    /\ calls[i].pc = "json"
    /\ calls' = [calls EXCEPT ![i] = Resolve(@, table)]
    /\ UNCHANGED << _db, dbVars, clock, opens >>

\* a build() that answers an unparseable body with the costs it has scanned
JsonOnFailurePartial(i) ==
    /\ calls[i].pc = "json"
    /\ calls' = [calls EXCEPT ![i] =
                    [@ EXCEPT !.pc = "resolved", !.err = "Parse",
                              !.result = [costs |-> calls[i].rawCosts]]]
    /\ UNCHANGED << _db, dbVars, clock, opens >>

\* response.json() rejects: the body is not JSON
JsonOnFailure(i) ==
    /\ calls[i].pc = "json"
    /\ calls' = [calls EXCEPT ![i] = Reject(@, "Parse")]
    /\ UNCHANGED << _db, dbVars, clock, opens >>

(***************************************************************************)
(* The specification.                                                      *)
(***************************************************************************)
\* the callbacks of the storage and of the network, for the calls in flight
Callbacks ==
    \E i \in DOMAIN calls :
        \/ AddCostOnSuccess(i) \/ AddCostOnError(i)
        \/ SetRatesUrlOnSuccess(i) \/ SetRatesUrlOnError(i)
        \/ TxComplete(i) \/ TxAbort(i)
        \/ ReportCursorOnSuccess(i) \/ BarCursorOnSuccess(i) \/ CursorOnError(i)
        \/ ReadRatesUrlOnSuccess(i) \/ ReadRatesUrlOnError(i)
        \/ \E ok \in BOOLEAN : FetchOnResponse(i, ok)
        \/ FetchOnFailure(i)
        \/ \E table \in ServedRates : JsonOnParsed(i, table)
        \/ JsonOnFailure(i)

\* the library on its own, called directly: no page is mounted
Next ==
    \/ Tick /\ UNCHANGED page
    \/ \E n \in PageDbs, v \in Versions : openCostsDB(n, v) /\ UNCHANGED page
    \/ \E n \in AllDbs : (OpenOnSuccess(n) \/ OpenOnError(n)) /\ UNCHANGED page
    \/ \E cost \in CostInputs : addCost(cost) /\ UNCHANGED page
    \/ \E url \in Urls : setRatesUrl(url) /\ UNCHANGED page
    \/ \E q \in Queries :
          /\ \/ getReport(q.year, q.month, q.currency)
             \/ getPieChartData(q.year, q.month, q.currency)
             \/ getBarChartData(q.year, q.currency)
          /\ UNCHANGED page
    \/ Callbacks /\ UNCHANGED page

Spec == Init /\ [][Next]_vars

\* A request of call i, its transaction or its HTTP exchange is answered.  The
\* success callbacks of the settings read and of the JSON parse are enabled
\* exactly when their failure callbacks are, and a step of either ends the
\* wait: weak fairness of this action is weak fairness of all the callbacks of
\* call i.
Answered(i) ==
    /\ i \in DOMAIN calls
    /\ \/ AddCostOnSuccess(i) \/ AddCostOnError(i)
       \/ SetRatesUrlOnSuccess(i) \/ SetRatesUrlOnError(i)
       \/ TxComplete(i) \/ TxAbort(i)
       \/ ReportCursorOnSuccess(i) \/ BarCursorOnSuccess(i) \/ CursorOnError(i)
       \/ ReadRatesUrlOnError(i)
       \/ \E ok \in BOOLEAN : FetchOnResponse(i, ok)
       \/ FetchOnFailure(i)
       \/ JsonOnFailure(i)
    /\ UNCHANGED page

\* one cost, one url and one query: what a call is given does not decide
\* whether it settles
LiveCosts == {cost \in CostInputs : cost.description = "taxi"}
LiveUrls == {url \in Urls : url # ""}
LiveQueries == {q \in Queries : q.currency = "ILS"}

NextLive ==
    \/ \E n \in PageDbs : openCostsDB(n, 1) /\ UNCHANGED page
    \/ \E n \in PageDbs : OpenOnSuccess(n) /\ UNCHANGED page
    \/ \E n \in PageDbs : OpenOnError(n) /\ UNCHANGED page
    \/ \E cost \in LiveCosts : addCost(cost) /\ UNCHANGED page
    \/ \E url \in LiveUrls : setRatesUrl(url) /\ UNCHANGED page
    \/ \E q \in LiveQueries :
          /\ \/ getReport(q.year, q.month, q.currency)
             \/ getPieChartData(q.year, q.month, q.currency)
             \/ getBarChartData(q.year, q.currency)
          /\ UNCHANGED page
    \/ Callbacks /\ UNCHANGED page

\* the library when no request, transaction or HTTP exchange stays without an
\* answer for ever
SpecLive == Init /\ [][NextLive]_vars /\ \A i \in 1..MaxCalls : WF_vars(Answered(i))

(***************************************************************************)
(* convert on its own: each behaviour is one call of it, kept in calls.    *)
(***************************************************************************)
InitConvert ==
    /\ _db = NULL
    /\ page = NoPage
    /\ clock = 1
    /\ opens = [n \in AllDbs |-> NoOpen]
    /\ calls = << >>
    /\ settings = [n \in AllDbs |-> Absent]
    /\ costs = [n \in AllDbs |-> << >>]
    /\ keygen = [n \in AllDbs |-> 0]
    /\ version = [n \in AllDbs |-> 0]
    /\ stores = [n \in AllDbs |-> {}]

Convert(sum, fromCur, toCur, rates) ==
    /\ calls = << >>
    /\ calls' = << [op |-> "convert", sum |-> sum, fromCur |-> fromCur,
                    toCur |-> toCur, rates |-> rates,
                    result |-> convertFloat(sum, fromCur, toCur, rates)] >>
    /\ UNCHANGED << _db, dbVars, clock, opens, page >>

NextConvert ==
    \E sum \in Amounts, rates \in FloatTables :
        \E fromCur, toCur \in DOMAIN rates : Convert(sum, fromCur, toCur, rates)

SpecConvert == InitConvert /\ [][NextConvert]_vars

(***************************************************************************)
(* The pages.  A page component is mounted; its mount effect opens         *)
(* "costsdb" and keeps the API object in its state db; its handlers call   *)
(* the library and go on when the promise has settled.  reqs holds, per    *)
(* handler run that called the library, the request id it took, the call   *)
(* it made and whether its continuation has run; settled and saves are     *)
(* history fields that no action reads.                                    *)
(***************************************************************************)
NoStatus == [type |-> "", msg |-> ""]
ErrorStatus(msg) == [type |-> "error", msg |-> msg]
SuccessStatus(msg) == [type |-> "success", msg |-> msg]

NewPage(kind) ==
    [kind |-> kind,
     open |-> "no",             \* the mount effect's open: no, pending, done
     db |-> FALSE,              \* whether the state db holds the API object
     reqIdRef |-> 0,            \* reqIdRef.current
     reqs |-> << >>,
     data |-> << >>,            \* the chart's data
     report |-> << >>,          \* the report shown: none, or one
     status |-> NoStatus,
     settled |-> << >>,         \* history: the requests, in the order they went on
     saves |-> << >>]           \* history: the inputs of handleSave and the calls made

libVars == << _db, dbVars, clock, opens, calls >>

\* the call a request of the page made
CallOf(k) == calls[page.reqs[k].call]

Settled(c) == c.pc \in {"resolved", "rejected"}

\* a promise has settled and the handler awaiting it has not gone on yet: its
\* continuation is a microtask, which runs before any other event
ContinuationDue ==
    \E k \in DOMAIN page.reqs : ~page.reqs[k].done /\ Settled(CallOf(k))

\* the mount effect: openCostsDB("costsdb", 1)
PageOpen ==
    /\ page.open = "no"
    /\ \E n \in PageDbs : openCostsDB(n, 1)
    /\ page' = [page EXCEPT !.open = "pending"]

\* the mount effect goes on: setDb(opened)
PageOnOpened ==
    /\ page.open = "pending"
    /\ \E n \in PageDbs : opens[n].state = "success"
    /\ page' = [page EXCEPT !.open = "done", !.db = TRUE]
    /\ UNCHANGED libVars

\* the mount effect's catch: the open failed
PageOnOpenFailed ==
    /\ page.open = "pending"
    /\ \E n \in PageDbs : opens[n].state = "error"
    /\ page' = [page EXCEPT !.open = "done", !.status = ErrorStatus("Storage")]
    /\ UNCHANGED libVars

NewRequest(id) == [id |-> id, call |-> Len(calls) + 1, done |-> FALSE]

\* BarChartPage.loadBar up to its await (without db it returns at once)
loadBar(selectedYear, selectedCurrency) ==
    /\ page.kind = "bar"
    /\ page.db
    /\ getBarChartData(selectedYear, selectedCurrency)
    /\ page' = [page EXCEPT !.reqIdRef = @ + 1,
                            !.status = NoStatus,
                            !.reqs = Append(@, NewRequest(page.reqIdRef + 1))]

\* PieChartPage.loadPie up to its await
loadPie(selectedYear, selectedMonth, selectedCurrency) ==
    /\ page.kind = "pie"
    /\ page.db
    /\ getPieChartData(selectedYear, selectedMonth, selectedCurrency)
    /\ page' = [page EXCEPT !.reqIdRef = @ + 1,
                            !.status = NoStatus,
                            !.reqs = Append(@, NewRequest(page.reqIdRef + 1))]

\* a loadBar that takes every response, also that of a request that is not
\* the latest
LoadOnSettledUnguarded(k) ==
    /\ page.kind \in {"bar", "pie"}
    /\ k \in DOMAIN page.reqs
    /\ ~page.reqs[k].done
    /\ Settled(CallOf(k))
    /\ page' = [page EXCEPT
                   !.reqs[k].done = TRUE,
                   !.settled = Append(@, k),
                   !.data = IF CallOf(k).pc = "resolved" THEN CallOf(k).result ELSE << >>,
                   !.status = IF CallOf(k).pc = "resolved" THEN @
                              ELSE ErrorStatus(CallOf(k).err)]
    /\ UNCHANGED libVars

\* loadBar and loadPie after the await: the response of a request that is not
\* the latest is dropped; otherwise the data is shown, or on a failure the
\* data is emptied and the error shown
LoadOnSettled(k) ==
    /\ page.kind \in {"bar", "pie"}
    /\ k \in DOMAIN page.reqs
    /\ ~page.reqs[k].done
    /\ Settled(CallOf(k))
    /\ page' =
          IF page.reqs[k].id # page.reqIdRef
          THEN [page EXCEPT !.reqs[k].done = TRUE, !.settled = Append(@, k)]
          ELSE [page EXCEPT
                  !.reqs[k].done = TRUE,
                  !.settled = Append(@, k),
                  !.data = IF CallOf(k).pc = "resolved" THEN CallOf(k).result ELSE << >>,
                  !.status = IF CallOf(k).pc = "resolved" THEN @
                             ELSE ErrorStatus(CallOf(k).err)]
    /\ UNCHANGED libVars

\* ReportPage.handleGetReport up to its await (its button is disabled
\* without db)
handleGetReport(year, month, currency) ==
    /\ page.kind = "report"
    /\ page.db
    /\ getReport(year, month, currency)
    /\ page' = [page EXCEPT !.status = NoStatus,
                            !.report = << >>,
                            !.reqs = Append(@, NewRequest(Len(page.reqs) + 1))]

\* handleGetReport after the await
ReportOnSettled(k) ==
    /\ page.kind = "report"
    /\ k \in DOMAIN page.reqs
    /\ ~page.reqs[k].done
    /\ Settled(CallOf(k))
    /\ page' =
          IF CallOf(k).pc = "resolved"
          THEN [page EXCEPT !.reqs[k].done = TRUE,
                            !.settled = Append(@, k),
                            !.report = << CallOf(k).result >>,
                            !.status = SuccessStatus("Report loaded.")]
          ELSE [page EXCEPT !.reqs[k].done = TRUE,
                            !.settled = Append(@, k),
                            !.status = ErrorStatus(CallOf(k).err)]
    /\ UNCHANGED libVars

\* the callbacks of the report and chart calls in flight, no url being stored
ReadCallbacks ==
    \E i \in DOMAIN calls :
        \/ ReportCursorOnSuccess(i) \/ BarCursorOnSuccess(i) \/ CursorOnError(i)
        \/ ReadRatesUrlOnSuccess(i) \/ ReadRatesUrlOnError(i)

\* the library loaded, the store holding a seed
InitLibrary ==
    /\ _db = NULL
    /\ clock = 1
    /\ opens = [n \in AllDbs |-> NoOpen]
    /\ calls = << >>
    /\ settings = [n \in AllDbs |-> Absent]
    /\ \E seed \in SeedCosts :
          /\ costs = [n \in AllDbs |-> IF n = "costsdb" THEN seed ELSE << >>]
          /\ keygen = [n \in AllDbs |-> IF n = "costsdb" THEN Len(seed) ELSE 0]
          /\ version = [n \in AllDbs |-> IF n = "costsdb" /\ seed # << >> THEN 1 ELSE 0]
          /\ stores = [n \in AllDbs |->
                          IF n = "costsdb" /\ seed # << >>
                          THEN {"costs", "settings"} ELSE {}]

\* a chart page or the report page on a store that holds a seed
InitPages ==
    /\ InitLibrary
    /\ \E kind \in {"bar", "pie", "report"} : page = NewPage(kind)

NextPages ==
    \/ \E k \in DOMAIN page.reqs : LoadOnSettled(k)
    \/ \E k \in DOMAIN page.reqs : ReportOnSettled(k)
    \/ ~ContinuationDue /\ PageOpen
    \/ ~ContinuationDue /\ PageOnOpened
    \/ ~ContinuationDue /\ PageOnOpenFailed
    \/ \E n \in PageDbs :
          ~ContinuationDue /\ (OpenOnSuccess(n) \/ OpenOnError(n)) /\ UNCHANGED page
    \/ \E q \in Queries :
          /\ ~ContinuationDue
          /\ \/ loadBar(q.year, q.currency)
             \/ loadPie(q.year, q.month, q.currency)
             \/ handleGetReport(q.year, q.month, q.currency)
    \/ ~ContinuationDue /\ ReadCallbacks /\ UNCHANGED page

SpecPages == InitPages /\ [][NextPages]_vars

(***************************************************************************)
(* The settings page, next to the library's other callers.  The text of    *)
(* the url field is a sequence of pieces: white space characters and       *)
(* pieces of a url that hold no white space.                               *)
(***************************************************************************)
WhiteSpace == {" ", "\t", "\n"}

RawUrls ==
    {<< >>, <<" ">>, <<"\t", " ">>,
     <<"http://localhost:3000/rates.json">>,
     <<" ", "http://localhost:3000/rates.json", "\n">>}

RECURSIVE TrimStart(_)
TrimStart(s) ==
    IF s # << >> /\ Head(s) \in WhiteSpace THEN TrimStart(Tail(s)) ELSE s

RECURSIVE TrimEnd(_)
TrimEnd(s) ==
    IF s # << >> /\ s[Len(s)] \in WhiteSpace
    THEN TrimEnd(SubSeq(s, 1, Len(s) - 1)) ELSE s

\* String.prototype.trim
Trim(s) == TrimEnd(TrimStart(s))

\* the string of a text
RECURSIVE Text(_)
Text(s) == IF s = << >> THEN "" ELSE Head(s) \o Text(Tail(s))

InitSettings == InitLibrary /\ page = NewPage("settings")

\* SettingsPage.handleSave up to its await (its button is disabled without
\* db): a text that is blank once trimmed is refused, any other is stored
\* trimmed
handleSave(ratesUrl) ==
    LET trimmedUrl == Text(Trim(ratesUrl))
    IN  /\ page.kind = "settings"
        /\ page.db
        /\ Len(page.saves) < MaxCalls
        /\ IF ~Truthy(trimmedUrl)
           THEN /\ page' = [page EXCEPT
                              !.status = ErrorStatus("Please enter a URL."),
                              !.saves = Append(@, [ratesUrl |-> ratesUrl, call |-> 0])]
                /\ UNCHANGED libVars
           ELSE /\ setRatesUrl(trimmedUrl)
                /\ page' = [page EXCEPT
                              !.status = NoStatus,
                              !.reqs = Append(@, NewRequest(Len(page.reqs) + 1)),
                              !.saves = Append(@, [ratesUrl |-> ratesUrl,
                                                   call |-> Len(calls) + 1])]

\* handleSave after the await
SaveOnSettled(k) ==
    /\ page.kind = "settings"
    /\ k \in DOMAIN page.reqs
    /\ ~page.reqs[k].done
    /\ Settled(CallOf(k))
    /\ page' = [page EXCEPT
                   !.reqs[k].done = TRUE,
                   !.settled = Append(@, k),
                   !.status = IF CallOf(k).pc = "resolved"
                              THEN SuccessStatus("Rates URL saved successfully.")
                              ELSE ErrorStatus(CallOf(k).err)]
    /\ UNCHANGED libVars

\* the settings page, a caller of the library that stores an empty url, and
\* the report and chart calls
NextSettings ==
    \/ \E k \in DOMAIN page.reqs : SaveOnSettled(k)
    \/ ~ContinuationDue /\ PageOpen
    \/ ~ContinuationDue /\ PageOnOpened
    \/ ~ContinuationDue /\ PageOnOpenFailed
    \/ \E n \in PageDbs :
          ~ContinuationDue /\ (OpenOnSuccess(n) \/ OpenOnError(n)) /\ UNCHANGED page
    \/ \E ratesUrl \in RawUrls : ~ContinuationDue /\ handleSave(ratesUrl)
    \/ ~ContinuationDue /\ setRatesUrl("") /\ UNCHANGED page
    \/ \E q \in Queries :
          /\ ~ContinuationDue
          /\ \/ getReport(q.year, q.month, q.currency)
             \/ getPieChartData(q.year, q.month, q.currency)
             \/ getBarChartData(q.year, q.currency)
          /\ UNCHANGED page
    \/ ~ContinuationDue /\ Callbacks /\ UNCHANGED page

SpecSettings == InitSettings /\ [][NextSettings]_vars

(***************************************************************************)
(* A caller that opens both databases and calls the operations through     *)
(* the API objects the opens returned.  Every API object holds the same    *)
(* functions of the module, which use _db; via is a history field: the     *)
(* database whose object each call was made through.                       *)
(***************************************************************************)
Caller == [kind |-> "caller", via |-> << >>]

InitTwoDbs ==
    /\ _db = NULL
    /\ clock = 1
    /\ opens = [n \in AllDbs |-> NoOpen]
    /\ calls = << >>
    /\ settings = [n \in AllDbs |-> Absent]
    /\ costs = [n \in AllDbs |-> << >>]
    /\ keygen = [n \in AllDbs |-> 0]
    /\ version = [n \in AllDbs |-> 0]
    /\ stores = [n \in AllDbs |-> {}]
    /\ page = Caller

\* a call through the object that the open of database name resolved with
Through(name) ==
    /\ opens[name].connected
    /\ \/ \E cost \in CostInputs : addCost(cost)
       \/ \E url \in Urls : setRatesUrl(url)
       \/ \E q \in Queries :
             \/ getReport(q.year, q.month, q.currency)
             \/ getPieChartData(q.year, q.month, q.currency)
             \/ getBarChartData(q.year, q.currency)
    /\ page' = [page EXCEPT !.via = Append(@, name)]

NextTwoDbs ==
    \/ \E n \in AllDbs : openCostsDB(n, 1) /\ UNCHANGED page
    \/ \E n \in AllDbs : OpenOnSuccess(n) /\ UNCHANGED page
    \/ \E n \in AllDbs : OpenOnError(n) /\ UNCHANGED page
    \/ \E n \in AllDbs : Through(n)
    \/ Callbacks /\ UNCHANGED page

SpecTwoDbs == InitTwoDbs /\ [][NextTwoDbs]_vars

(***************************************************************************)
(* What the claims speak of.                                               *)
(***************************************************************************)
CallsOf(ops) == {i \in DOMAIN calls : calls[i].op \in ops}
ResolvedOf(ops) == {i \in CallsOf(ops) : calls[i].pc = "resolved"}

\* the stored records of one month, in storage order
RecordsOfMonth(stored, year, month) ==
    SelectSeq(stored, LAMBDA r : r.year = year /\ r.month = month)

\* a stored sum in the target currency, to 2 decimals
InTarget(sum, fromCur, toCur, rates) == ToFixed2(convert(sum, fromCur, toCur, rates))

RECURSIVE SumOfSums(_)
SumOfSums(items) ==
    IF items = << >> THEN Zero
    ELSE JsAdd(SumOfSums(SubSeq(items, 1, Len(items) - 1)), items[Len(items)].sum)

\* the report the specification describes for a store, a period and a table
ReportOf(stored, year, month, currency, rates) ==
    LET recs == RecordsOfMonth(stored, year, month)
        items == [j \in 1..Len(recs) |->
                    [sum |-> InTarget(recs[j].sum, recs[j].currency, currency, rates),
                     currency |-> currency,
                     category |-> recs[j].category,
                     description |-> recs[j].description,
                     Date |-> [day |-> recs[j].day]]]
    IN  [year |-> year, month |-> month, costs |-> items,
         total |-> [currency |-> currency, total |-> ToFixed2(SumOfSums(items))]]

\* C1: a successful getReport returns exactly the stored records of the month,
\* in storage order, each sum converted into the target currency and rounded to
\* 2 decimals, and as total the rounded sum of those sums; the records are those
\* the store holds for as long as the call's transaction reads it.  With no
\* matching record costs is empty and the total 0; 100 USD and 50 GBP reported
\* in USD with the default rates give 100.00, 83.33 and the total 183.33.
C1_ReportIsFilteredConvertedTotalled ==
    \A i \in CallsOf({"getReport"}) :
        LET c == calls[i]
            recs == RecordsOfMonth(c.seen, c.year, c.month)
        IN  /\ (c.tx = "live" /\ (c.pos > 0 \/ c.pc = "readUrl")) => c.seen = costs[c.db]
            /\ c.pc = "resolved" =>
                  /\ c.result = ReportOf(c.seen, c.year, c.month, c.currency, c.rates)
                  /\ Len(c.result.costs) = Len(recs)
                  /\ recs = << >> =>
                        (c.result.costs = << >> /\ c.result.total.total = Zero)
                  /\ (c.seen \in SeedCosts /\ c.seen # << >> /\ c.currency = "USD"
                        /\ c.month = 12 /\ c.rates = defaultRates) =>
                        /\ c.result.costs[1].sum = Q(100, 1)
                        /\ c.result.costs[2].sum = Q(8333, 100)
                        /\ c.result.total.total = Q(18333, 100)

C1_Witness ==
    \E i \in ResolvedOf({"getReport"}) :
        /\ Len(calls[i].result.costs) = 2
        /\ Len(calls[i].seen) > 2
        /\ calls[i].result.total.total = Q(18333, 100)

\* C2: once addCost has resolved for a valid input, a getReport issued
\* afterwards for the month stamped on the record has exactly one entry for
\* that call, whose sum is the input sum converted and rounded to 2 decimals.
C2_AddThenReportHasTheEntry ==
    \A i \in ResolvedOf({"getReport"}) : \A a \in calls[i].after :
        LET c == calls[i]
            add == calls[a]
            recs == RecordsOfMonth(c.seen, c.year, c.month)
            mine == {j \in 1..Len(recs) :
                        recs[j] = Record(add.key, add.cost,
                                         [year |-> add.year, month |-> add.month,
                                          day |-> add.day])}
        IN  (/\ IsFinitePositive(add.cost.sum)
             /\ add.db = c.db /\ add.year = c.year /\ add.month = c.month)
            => /\ Cardinality(mine) = 1
               /\ Len(c.result.costs) = Len(recs)
               /\ \A j \in mine :
                     c.result.costs[j].sum =
                        InTarget(add.cost.sum, add.cost.currency, c.currency, c.rates)

\* C3: an API call made while the handle is null is rejected at once with the
\* not-open error, as a rejected promise; it creates no transaction, reads no
\* url and issues no fetch, and the step leaves the handle and both
\* collections as they were.
C3_NotOpenRejects ==
    /\ [](\A i \in DOMAIN calls :
            calls[i].db = NULL =>
               /\ calls[i].pc = "rejected" /\ calls[i].err = "NotOpen"
               /\ calls[i].tx = "none" /\ calls[i].nfetch = 0
               /\ calls[i].ratesUrl = "unread" /\ calls[i].pos = 0)
    /\ [][(_db = NULL /\ Len(calls') > Len(calls)) =>
             /\ calls'[Len(calls')].pc = "rejected"
             /\ calls'[Len(calls')].err = "NotOpen"
             /\ UNCHANGED << _db, dbVars >>]_vars

C3_Witness ==
    /\ _db = NULL
    /\ \E i, j \in DOMAIN calls :
          /\ calls[i].op = "addCost" /\ calls[i].db = NULL
          /\ calls[j].op = "getPieChartData" /\ calls[j].db = NULL

\* C4: a report or chart call whose HTTP GET of the configured url is answered
\* with a non-success status is rejected with the rates-fetch error; it takes
\* no rates table, the default one included, and resolves with nothing.
C4_NonSuccessStatusRejects ==
    \A i \in CallsOf(ReadOps) :
        calls[i].http = "notok" =>
           /\ calls[i].pc = "rejected" /\ calls[i].err = "RatesFetch"
           /\ calls[i].rates = NoRates /\ calls[i].result = NoResult
           /\ calls[i].cfg.present /\ Truthy(calls[i].cfg.value)

C4_Witness ==
    \E i \in CallsOf({"getReport"}) :
        /\ calls[i].http = "notok" /\ calls[i].rawCosts # << >>
        /\ settings[calls[i].db].present

\* C5: while the settings hold no ratesUrl entry, the report and chart calls
\* issue no HTTP request and what they resolve with is computed with exactly
\* the table USD 1, GBP 0.6, EURO 0.7, ILS 3.4.
C5_Table ==
    [USD |-> Q(1, 1), GBP |-> Q(6, 10), EURO |-> Q(7, 10), ILS |-> Q(34, 10)]

C5_DefaultRatesWithoutUrl ==
    \A i \in CallsOf(ReadOps) :
        LET c == calls[i]
        IN  (c.db # NULL /\ ~settings[c.db].present) =>
               /\ c.nfetch = 0 /\ c.http = ""
               /\ c.pc \in {"scan", "readUrl", "resolved", "rejected"}
               /\ c.pc = "resolved" =>
                     /\ c.rates = C5_Table
                     /\ c.result = BuildResult(c, C5_Table)
                     /\ c.op = "getReport" =>
                           c.result = ReportOf(c.seen, c.year, c.month, c.currency, C5_Table)

C5_Witness ==
    \E i \in ResolvedOf({"getBarChartData"}) : \E j \in ResolvedOf({"getReport"}) :
        /\ ~settings[calls[i].db].present /\ calls[i].seen # << >>
        /\ ~settings[calls[j].db].present /\ calls[j].result.costs # << >>

\* C6: addCost with a sum that is not a finite number greater than 0 is
\* rejected with a validation error and adds no record.
C6_InvalidSumRejected ==
    \A i \in CallsOf({"addCost"}) :
        (calls[i].db # NULL /\ ~IsFinitePositive(calls[i].cost.sum)) =>
           /\ calls[i].pc \in {"resolved", "rejected"} =>
                 (calls[i].pc = "rejected" /\ calls[i].err = "Validation")
           /\ calls[i].tx # "committed"
           /\ \A j \in DOMAIN costs[calls[i].db] :
                 IsFinitePositive(costs[calls[i].db][j].sum)

\* C7: a successful getBarChartData returns 12 entries, for the months 1 to 12
\* in this order, and a month without a record of the year has the total 0.
C7_TwelveMonths ==
    \A i \in ResolvedOf({"getBarChartData"}) :
        LET c == calls[i]
        IN  /\ Len(c.result) = 12
            /\ \A m \in 1..12 :
                  /\ c.result[m].month = m
                  /\ RecordsOfMonth(c.seen, c.year, m) = << >> => c.result[m].total = Zero

C7_Witness ==
    \E i \in ResolvedOf({"getBarChartData"}) :
        /\ calls[i].result[12].total # Zero
        /\ calls[i].result[11].total # Zero
        /\ calls[i].result[1].total = Zero

\* whether two numbers differ by no more than so many hundredths
Within(a, b, hundredths) ==
    /\ a.k = "num" /\ b.k = "num"
    /\ 100 * Abs(a.n * b.d - b.n * a.d) <= hundredths * a.d * b.d

RECURSIVE SumOfValues(_)
SumOfValues(entries) ==
    IF entries = << >> THEN Zero
    ELSE JsAdd(SumOfValues(SubSeq(entries, 1, Len(entries) - 1)),
               entries[Len(entries)].value)

\* C8: the values getPieChartData returns add up to the total.total of
\* getReport for the same store, rates, period and currency, within 0.01 per
\* category.
C8_PieSumsToReportTotal ==
    \A i \in ResolvedOf({"getPieChartData"}) :
        LET c == calls[i]
            report == BuildReport(c.rawCosts, c.year, c.month, c.currency, c.rates)
        IN  Within(SumOfValues(c.result), report.total.total, Len(c.result))

\* C9: a report or chart call that met a failure (a storage error, a failure
\* status, an unreachable server, an unparseable body) is rejected and nothing
\* is delivered; only a resolved call has a result, and it has scanned the
\* whole store and taken a rates table.
C9_NoPartialResult ==
    \A i \in CallsOf(ReadOps) :
        LET c == calls[i]
        IN  /\ (c.err # "" \/ c.http \in {"notok", "failed"}) =>
                  (c.pc = "rejected" /\ c.result = NoResult)
            /\ c.pc = "rejected" => c.err # ""
            /\ c.pc # "resolved" => c.result = NoResult
            /\ c.pc = "resolved" =>
                  /\ c.pos = Len(c.seen) /\ c.rates # NoRates
                  /\ c.result = BuildResult(c, c.rates)

C9_Witness ==
    \E i \in CallsOf({"getReport"}) :
        /\ calls[i].pc = "rejected" /\ calls[i].err = "Parse"
        /\ calls[i].rawCosts # << >> /\ calls[i].result = NoResult

\* C10: a report or chart call reads the configured url and starts its fetch
\* only when the cursor has gone past every record of the store; from then on
\* it scans nothing, and every item of its result is converted with the one
\* table the call resolved.
C10_RatesAfterScan ==
    \A i \in CallsOf(ReadOps) :
        LET c == calls[i]
            started == \/ c.pc \in {"readUrl", "fetch", "json", "resolved"}
                       \/ c.ratesUrl # "unread" \/ c.nfetch > 0
        IN  /\ c.pc = "readUrl" => c.pos = Len(costs[c.db])
            /\ started =>
                  /\ c.pos = Len(c.seen)
                  /\ c.op # "getBarChartData" =>
                        Len(c.rawCosts) = Len(RecordsOfMonth(c.seen, c.year, c.month))
                  /\ c.op = "getBarChartData" =>
                        \A m \in 1..12 :
                           Len(c.perMonth[m]) = Len(RecordsOfMonth(c.seen, c.year, m))
            /\ c.nfetch <= 1
            /\ (c.pc = "resolved" /\ c.op = "getReport") =>
                  \A j \in DOMAIN c.rawCosts :
                     c.result.costs[j].sum =
                        InTarget(c.rawCosts[j].sum, c.rawCosts[j].currency,
                                 c.currency, c.rates)

C10_Witness ==
    \E i \in CallsOf({"getBarChartData"}) :
        /\ calls[i].pc = "fetch" /\ calls[i].nfetch = 1
        /\ calls[i].seen # << >> /\ calls[i].perMonth[12] # << >>

\* C11: a report or chart call resolves its rates once: it issues at most one
\* HTTP GET, whatever the store holds; once it has read the settings it has
\* issued exactly one if a url is configured there and none otherwise; and a
\* call whose fetch failed is rejected with that one request issued.
C11_OneFetchPerCall ==
    \A i \in CallsOf(ReadOps) :
        LET c == calls[i]
            configured == c.cfg.present /\ Truthy(c.cfg.value)
        IN  /\ c.nfetch <= 1
            /\ c.ratesUrl = "unread" => c.nfetch = 0
            /\ c.ratesUrl # "unread" => c.nfetch = (IF configured THEN 1 ELSE 0)
            /\ c.http \in {"notok", "failed"} => (c.pc = "rejected" /\ c.nfetch = 1)
            /\ c.pc = "resolved" => c.result = BuildResult(c, c.rates)

C11_Witness ==
    /\ \E i \in ResolvedOf({"getBarChartData"}) :
          /\ calls[i].nfetch = 1 /\ Len(calls[i].seen) > 2
          /\ calls[i].perMonth[11] # << >> /\ calls[i].perMonth[12] # << >>
    /\ \E j \in CallsOf({"setRatesUrl"}) : calls[j].tx = "committed"

\* the last of a non-empty set of calls, in the order they were made
LastOf(S) == CHOOSE i \in S : \A j \in S : j <= i

\* the setRatesUrl calls on a database whose promise has resolved
SavedUrls(n) == {i \in ResolvedOf({"setRatesUrl"}) : calls[i].db = n}

\* C12: once the successful setRatesUrl calls have finished, the settings hold
\* one "ratesUrl" entry, whose value is the url of the last of them; before the
\* first one the entry is absent.
C12_SettingsHoldLastUrl ==
    \A n \in AllDbs :
        (\A i \in CallsOf({"setRatesUrl"}) : calls[i].tx # "live") =>
            IF SavedUrls(n) = {} THEN settings[n] = Absent
            ELSE settings[n] = Entry(calls[LastOf(SavedUrls(n))].newUrl)

\* the items a call converts: those its scan kept
ItemsOf(c) ==
    IF c.op = "getBarChartData"
    THEN UNION {{c.perMonth[m][j] : j \in DOMAIN c.perMonth[m]} : m \in 1..12}
    ELSE {c.rawCosts[j] : j \in DOMAIN c.rawCosts}

\* C13: a report or chart call never resolves with a result computed from a
\* rate its table lacks: when it resolves having converted an item, the table
\* has a rate for the item's currency and for the target currency.
C13_MissingRateRejects ==
    \A i \in ResolvedOf(ReadOps) :
        \A item \in ItemsOf(calls[i]) :
            /\ item.currency \in DOMAIN calls[i].rates
            /\ calls[i].currency \in DOMAIN calls[i].rates

\* the record an addCost call has asked the store to add
RecordOf(c) ==
    Record(c.key, c.cost, [year |-> c.year, month |-> c.month, day |-> c.day])

Stored(c) == \E j \in DOMAIN costs[c.db] : costs[c.db][j] = RecordOf(c)

\* C14: a resolved addCost has its record in the costs collection: once the
\* call's transaction has ended, whichever way, the record of a resolved call
\* is stored.
C14_ResolvedAddIsStored ==
    \A i \in ResolvedOf({"addCost"}) : calls[i].tx # "live" => Stored(calls[i])

\* x > 0 in JavaScript: false for NaN, true for Infinity
GreaterThanZero(x) == (x.k = "num" /\ x.n > 0) \/ x.k = "inf"

\* C15: every record of the costs collection has a sum greater than 0, a month
\* from 1 to 12 and one of the four currencies.
C15_RecordsAreWellFormed ==
    \A n \in AllDbs : \A j \in DOMAIN costs[n] :
        /\ GreaterThanZero(costs[n][j].sum)
        /\ costs[n][j].month \in 1..12
        /\ costs[n][j].currency \in Currencies

\* a step in which the transaction of call i, of one of the given operations,
\* commits
Commits(i, ops) ==
    /\ i \in DOMAIN calls /\ calls[i].op \in ops
    /\ calls[i].tx = "live" /\ calls'[i].tx = "committed"

\* a step that leaves the costs collections as they are, or appends the record
\* of one committing addCost call to the collection of its database
CostsFrame ==
    \/ UNCHANGED costs
    \/ \E i \in DOMAIN calls :
          /\ Commits(i, {"addCost"})
          /\ costs' = [costs EXCEPT ![calls[i].db] = Append(@, RecordOf(calls[i]))]

\* a step that leaves the settings as they are, or writes the url of one
\* committing setRatesUrl call
SettingsFrame ==
    \/ UNCHANGED settings
    \/ \E i \in DOMAIN calls :
          /\ Commits(i, {"setRatesUrl"})
          /\ settings' = [settings EXCEPT ![calls[i].db] = Entry(calls[i].newUrl)]

\* C16: the costs collection changes only by an addCost appending its one
\* record, which leaves the records before it as they were; the settings change
\* only by a setRatesUrl; and every successful addCost has added exactly one
\* record.
C16_CostsOnlyGrowByAddCost ==
    /\ [][CostsFrame /\ SettingsFrame]_vars
    /\ [](\A i \in ResolvedOf({"addCost"}) :
            calls[i].tx # "live" =>
               Cardinality({j \in DOMAIN costs[calls[i].db] :
                               costs[calls[i].db][j].id = calls[i].key}) = 1)

\* C17: however addCost calls interleave, every call that has resolved, once
\* its transaction has ended, has its own record stored, under an id that no
\* other record has and that is greater than the id of every record stored
\* before it; the record of no other call is overwritten or lost.
C17_ConcurrentAddsKeepEveryRecord ==
    /\ \A i \in ResolvedOf({"addCost"}) : calls[i].tx # "live" => Stored(calls[i])
    /\ \A n \in AllDbs : \A j, k \in DOMAIN costs[n] :
          j < k => costs[n][j].id < costs[n][k].id
    /\ \A i, j \in ResolvedOf({"addCost"}) :
          (i # j /\ calls[i].db = calls[j].db
             /\ calls[i].tx = "committed" /\ calls[j].tx = "committed")
          => calls[i].key # calls[j].key

\* a step in which an open request on database n succeeds
OpenSucceeds(n) == opens[n].state = "pending" /\ opens'[n].state = "success"

\* C18: a database that has been opened successfully has the "costs" and the
\* "settings" store; a successful open, of the same or of a raised version,
\* adds the stores that are missing, removes none and leaves every stored
\* record, the key generator and the settings as they were.
C18_OpenKeepsWhatIsStored ==
    /\ [](\A n \in AllDbs :
            (opens[n].connected \/ _db = n \/ version[n] > 0)
            => {"costs", "settings"} \subseteq stores[n])
    /\ [][\A n \in AllDbs :
            OpenSucceeds(n) =>
               /\ stores'[n] = stores[n] \cup {"costs", "settings"}
               /\ version'[n] >= version[n]
               /\ UNCHANGED << costs, keygen, settings >>]_vars

C18_Witness ==
    /\ version["costsdb"] = 2 /\ _db = "costsdb"
    /\ opens["costsdb"].state = "success"
    /\ Len(costs["costsdb"]) = 3

\* the kinds of error a promise of the library is rejected with
ErrorKinds == {"NotOpen", "Storage", "RatesFetch", "Network", "Parse"}

\* C19: a failed call reports one error, of one kind, for good.  A call made
\* without an open handle, and no other, fails with the not-open error; a call
\* whose storage request or cursor failed, and no other, fails with the
\* storage error; neither is reported as a validation failure.
C19_OneErrorKindPerFailure ==
    /\ [](\A i \in DOMAIN calls :
            LET c == calls[i]
            IN  /\ (c.pc = "rejected") = (c.err # "")
                /\ c.err # "" => c.err \in ErrorKinds
                /\ (c.err = "NotOpen") = (c.db = NULL)
                /\ (c.err = "Storage") = (c.db # NULL /\ c.pc = "rejected" /\ c.tx = "aborted")
                /\ c.err \in {"RatesFetch", "Network", "Parse"} =>
                      (c.op \in ReadOps /\ c.nfetch = 1 /\ c.tx = "committed"))
    /\ [][\A i \in DOMAIN calls :
            calls[i].pc = "rejected" => calls'[i] = calls[i]]_vars

C19_Witness ==
    \E i, j \in DOMAIN calls :
        /\ calls[i].op = "addCost" /\ calls[i].err = "NotOpen"
        /\ calls[j].op = "getBarChartData" /\ calls[j].err = "Storage"
        /\ calls[j].pos > 0

\* the calls of convert from a currency into itself
SameCurrency == {i \in DOMAIN calls : calls[i].fromCur = calls[i].toCur}

\* whether two finite numbers differ by no more than so many units in the
\* last place of the first
WithinUlps(x, y, ulps) ==
    LET e == IF x.e < y.e THEN x.e ELSE y.e
        X == x.s * x.m * Pow2(x.e - e)
        Y == y.s * y.m * Pow2(y.e - e)
    IN  Abs(Y - X) <= ulps * Pow2(x.e - e)

RECURSIVE FirstSeen(_)
FirstSeen(items) ==
    IF items = << >> THEN << >>
    ELSE LET before == FirstSeen(SubSeq(items, 1, Len(items) - 1))
             name == items[Len(items)].category
         IN  IF \E j \in DOMAIN before : before[j] = name THEN before
             ELSE Append(before, name)

\* a report's costs grouped by category: per category the sum of its items'
\* sums, to 2 decimals
PieOf(report) ==
    LET names == FirstSeen(report.costs)
    IN  [j \in DOMAIN names |->
            [name |-> names[j],
             value |-> ToFixed2(SumOfSums(SelectSeq(report.costs,
                                    LAMBDA c : c.category = names[j])))]]

\* C21: getPieChartData resolves with the costs of getReport for the same
\* arguments grouped by category: one entry per category that occurs, in the
\* order of first occurrence, its value the sum of the category's converted
\* sums, to 2 decimals.
C21_PieIsReportGroupedByCategory ==
    \A i \in ResolvedOf({"getPieChartData"}) :
        LET c == calls[i]
        IN  c.result = PieOf(ReportOf(c.seen, c.year, c.month, c.currency, c.rates))

\* the sum of the records' sums, each converted into the target currency
RECURSIVE SumConverted(_, _, _)
SumConverted(recs, currency, rates) ==
    IF recs = << >> THEN Zero
    ELSE JsAdd(SumConverted(SubSeq(recs, 1, Len(recs) - 1), currency, rates),
               convert(recs[Len(recs)].sum, recs[Len(recs)].currency, currency, rates))

\* C22: entry m of getBarChartData's result is the sum of the stored records
\* of that year and month m, converted into the target currency, to 2
\* decimals; the records of other years are in no entry, and a record whose
\* month is not one of 1..12 is kept in no bucket.
C22_BarEntryIsTheMonthsSum ==
    \A i \in ResolvedOf({"getBarChartData"}) :
        LET c == calls[i]
        IN  /\ \A m \in 1..12 :
                  c.result[m].total =
                     ToFixed2(SumConverted(RecordsOfMonth(c.seen, c.year, m),
                                           c.currency, c.rates))
            /\ \A m \in {0, 13} : ~MatchesYear([year |-> c.year, month |-> m], c.year)

C22_Witness ==
    \E i \in ResolvedOf({"getBarChartData"}) :
        /\ \E j \in DOMAIN calls[i].seen : calls[i].seen[j].year # calls[i].year
        /\ calls[i].result[12].total # Zero
        /\ calls[i].result[11].total # Zero
        /\ calls[i].result[1].total = Zero

\* C24: the total of entry m of getBarChartData for a year equals the
\* total.total of getReport for that year and month m, in the same currency,
\* on the same store and with the same rates.
C24_BarTotalEqualsReportTotal ==
    \A i \in ResolvedOf({"getBarChartData"}) :
        LET c == calls[i]
        IN  \A m \in 1..12 :
               c.result[m].total =
                  ReportOf(c.seen, c.year, m, c.currency, c.rates).total.total


\* the page has issued requests and the continuation of each has run
AllSettled ==
    /\ page.reqs # << >>
    /\ \A k \in DOMAIN page.reqs : page.reqs[k].done

LastCall == CallOf(Len(page.reqs))

ShowsLastLoad ==
    (page.kind \in {"bar", "pie"} /\ AllSettled)
        => IF LastCall.pc = "resolved"
           THEN page.data = LastCall.result /\ page.status = NoStatus
           ELSE page.data = << >> /\ page.status = ErrorStatus(LastCall.err)

OnlyLatestWrites ==
    (/\ page.kind \in {"bar", "pie"}
     /\ page'.open = page.open
     /\ page'.data # page.data \/ page'.status # page.status)
        => \/ /\ Len(page'.reqs) = Len(page.reqs) + 1
              /\ page'.reqIdRef = page.reqIdRef + 1
              /\ page'.data = page.data
           \/ \E k \in DOMAIN page.reqs :
                 /\ page'.settled = Append(page.settled, k)
                 /\ page.reqs[k].id = page.reqIdRef
                 /\ \A j \in DOMAIN page.reqs : page.reqs[j].id <= page.reqs[k].id

\* C23: on the bar and pie chart pages, whatever the order in which the load
\* requests in flight settle, the data and the error status are written only
\* for the request with the highest request id, and once every request has
\* settled the page shows the result of the request issued last, or no data
\* with its error message if that request failed.
C23_LatestRequestWins == []ShowsLastLoad /\ [][OnlyLatestWrites]_vars

\* an earlier load settled after the later one, with another result, and the
\* page shows the later one's result
C23_Witness ==
    /\ page.kind \in {"bar", "pie"}
    /\ page.settled = << 2, 1 >>
    /\ CallOf(1).pc = "resolved" /\ CallOf(2).pc = "resolved"
    /\ CallOf(1).result # CallOf(2).result
    /\ page.data = CallOf(2).result

\* C25: on the report page, once every getReport request that handleGetReport
\* started has settled, the report and the status shown are those of the
\* request issued last, in whatever order the requests completed.
C25_ReportShowsLastRequest ==
    (page.kind = "report" /\ AllSettled)
        => IF LastCall.pc = "resolved"
           THEN /\ page.report = << LastCall.result >>
                /\ page.status = SuccessStatus("Report loaded.")
           ELSE /\ page.report = << >>
                /\ page.status = ErrorStatus(LastCall.err)


\* C26: the API object that open(name, version) returned keeps operating on the
\* database it was opened for: a call made through it reads and writes that
\* database, also after another database has been opened.
C26_ObjectKeepsItsDatabase ==
    \A i \in DOMAIN calls :
        /\ calls[i].db = page.via[i]
        /\ (calls[i].op = "addCost" /\ calls[i].tx = "committed")
              => \E j \in DOMAIN costs[page.via[i]] :
                    costs[page.via[i]][j] = RecordOf(calls[i])


OpenFails(n) == opens[n].state = "pending" /\ opens'[n].state = "error"

SomeOpenSucceeded == \E n \in AllDbs : opens[n].connected

\* C27: the handle changes only when an open succeeds.  A failed open rejects
\* and leaves the handle as it was, so while no open has succeeded every call
\* fails with the not-open error; once an open has succeeded the handle is
\* never cleared and no later call fails with the not-open error.
C27_HandleChangesOnlyOnOpenSuccess ==
    /\ [](~SomeOpenSucceeded => _db = NULL)
    /\ [](SomeOpenSucceeded => _db # NULL)
    /\ [][_db' # _db => \E n \in AllDbs : OpenSucceeds(n) /\ _db' = n]_vars
    /\ [][\A n \in AllDbs : OpenFails(n) => UNCHANGED << _db, dbVars, calls >>]_vars
    /\ [][Len(calls') > Len(calls) =>
             IF SomeOpenSucceeded
             THEN calls'[Len(calls')].err # "NotOpen"
             ELSE /\ calls'[Len(calls')].pc = "rejected"
                  /\ calls'[Len(calls')].err = "NotOpen"]_vars

\* an open failed after an earlier one had succeeded, and a call resolved on
\* the handle of the earlier one
C27_Witness ==
    /\ opens["costsdb"].state = "error"
    /\ opens["costsdb"].connected
    /\ _db = "costsdb"
    /\ \E i \in DOMAIN calls : calls[i].pc = "resolved" /\ calls[i].db = "costsdb"


\* the calls the settings page made
PageCalls == {page.saves[k].call : k \in DOMAIN page.saves} \ {0}

Blank(s) == \A k \in DOMAIN s : s[k] \in WhiteSpace

\* C28: a stored ratesUrl entry whose value is the empty string is treated as
\* an absent entry is: the report and chart calls that read it issue no HTTP
\* request and resolve with what the default rates table gives.  The settings
\* page stores no blank text: a text that is empty or white space only makes
\* no call, any other text is stored trimmed.
C28_EmptyUrlIsNoUrl ==
    /\ \A i \in CallsOf(ReadOps) :
          LET c == calls[i]
          IN  (c.ratesUrl # "unread" /\ (~c.cfg.present \/ c.cfg.value = ""))
                 => /\ c.nfetch = 0 /\ c.http = BlankCall(c.op).http
                    /\ c.pc = "resolved"
                    /\ c.rates = defaultRates
                    /\ c.result = BuildResult(c, defaultRates)
    /\ \A k \in DOMAIN page.saves :
          LET s == page.saves[k]
          IN  IF Blank(s.ratesUrl)
              THEN s.call = 0
              ELSE /\ s.call \in DOMAIN calls
                   /\ calls[s.call].op = "setRatesUrl"
                   /\ calls[s.call].newUrl = Text(Trim(s.ratesUrl))
                   /\ calls[s.call].newUrl # ""
    /\ \A n \in AllDbs :
          (settings[n].present /\ settings[n].value = "")
             => \E i \in CallsOf({"setRatesUrl"}) \ PageCalls : calls[i].newUrl = ""

\* the page has refused a text of white space, and a report call has read a
\* stored empty url and resolved
C28_Witness ==
    /\ \E k \in DOMAIN page.saves :
          page.saves[k].ratesUrl # << >> /\ page.saves[k].call = 0
    /\ \E i \in ResolvedOf(ReadOps) :
          /\ calls[i].cfg.present /\ calls[i].cfg.value = ""
          /\ calls[i].seen # << >>


SettlesOnce ==
    \A i \in DOMAIN calls :
        Settled(calls[i])
            => /\ calls'[i].pc = calls[i].pc
               /\ calls'[i].err = calls[i].err
               /\ calls'[i].result = calls[i].result

\* C29: every call of addCost, setRatesUrl, getReport, getPieChartData and
\* getBarChartData settles once: resolved or rejected, it stays as it settled,
\* with the same error or result; and when every storage request and the rates
\* fetch complete or fail in the end, every call settles in the end.
C29_EveryCallSettlesOnce ==
    /\ [][SettlesOnce]_vars
    /\ \A i \in 1..MaxCalls :
          (i \in DOMAIN calls) ~> (i \in DOMAIN calls /\ Settled(calls[i]))

\* a report call that went through scan, url read, fetch and parse has
\* resolved after a write call settled
C29_Witness ==
    /\ Len(calls) = MaxCalls
    /\ \A i \in DOMAIN calls : Settled(calls[i]) /\ calls[i].tx # "live"
    /\ calls[1].op = "setRatesUrl"
    /\ calls[2].op \in ReadOps /\ calls[2].pc = "resolved" /\ calls[2].nfetch = 1


\* the write calls issued after call i on the database of call i
LaterWrites(i) ==
    {j \in CallsOf(WriteOps) : j > i /\ calls[j].db = calls[i].db}

\* what call i has taken from the store
Taken(c) == << c.seen, c.cfg, c.rawCosts, c.perMonth, c.ratesUrl >>

SnapshotKept ==
    \A i \in CallsOf(ReadOps) :
        /\ \A j \in LaterWrites(i) :
              /\ calls[j].tx = "committed" => calls[i].tx # "live"
              /\ (calls[j].op = "addCost" /\ calls[j].tx = "committed")
                    => \A k \in DOMAIN calls[i].seen : calls[i].seen[k] # RecordOf(calls[j])
        /\ (calls[i].tx = "live" /\ calls[i].pos > 0)
              => costs[calls[i].db] = calls[i].seen
        /\ calls[i].ratesUrl # "unread"
              => /\ calls[i].tx = "committed"
                 /\ calls[i].ratesUrl =
                       IF calls[i].cfg.present THEN calls[i].cfg.value ELSE NULL
                 /\ calls[i].pos = Len(calls[i].seen)

SnapshotFrozen ==
    \A i \in CallsOf(ReadOps) :
        calls[i].tx \in {"committed", "aborted"} => Taken(calls'[i]) = Taken(calls[i])

\* C30: a report or chart call works on one snapshot.  The records it scans
\* and the url it reads come from its one read-only transaction over both
\* collections: a write call issued after it commits only once that
\* transaction has ended, the collection stays what the cursor found while
\* the scan lasts, and what the call has taken stays as it is while the rates
\* are fetched.
C30_ReportReadsOneSnapshot == []SnapshotKept /\ [][SnapshotFrozen]_vars

\* an addCost issued after a report call waits while the call's scan is under
\* way
C30_Witness ==
    /\ Len(calls) = 2
    /\ calls[1].op \in {"getReport", "getBarChartData"}
    /\ calls[1].pc = "scan" /\ calls[1].pos >= 1
    /\ calls[2].op = "addCost" /\ calls[2].pc = "request" /\ calls[2].tx = "live"

====
